---- MODULE Spec2Model ----
(***************************************************************************)
(* A model of src/rockturtles.py: the Blockchain class (chain, pending     *)
(* transactions, peer nodes, proof of work, chain validation, longest      *)
(* chain replacement) and the Flask routes that drive it.                  *)
(*                                                                         *)
(* Abstractions, stated once:                                              *)
(*  - hashlib.sha256 over a serialized block is taken as collision free:   *)
(*    the digest of a block stands for the serialization it was computed   *)
(*    from, so two blocks have the same hash exactly when json.dumps with  *)
(*    sort_keys gives the same text for both.                              *)
(*  - hashlib.sha256 over str(proof**2 - previous_proof**2) is a fixed     *)
(*    deterministic mixing function of the decimal text (sign included)    *)
(*    with a short digest over the symbols 0 and 1, so that the            *)
(*    '0000' prefix is met by about one text in sixteen and the search     *)
(*    of proof_of_work ends after a few candidates.                        *)
(*  - str(datetime.datetime.now()) is a value the environment supplies.    *)
(*                                                                         *)
(* Specifications:                                                         *)
(*   Spec       : the routes, requests served one at a time                *)
(*   SpecTamper : is_chain_valid on chains with one field altered          *)
(*   SpecRace   : /mine_block and /replace_chain served by two threads     *)
(*   SpecMiners : /mine_block served by two threads                        *)
(*   SpecLedger : create_block, add_transaction, add_node called directly  *)
(*   SpecPure   : proof_of_work, is_chain_valid, hash called directly      *)
(***************************************************************************)
EXTENDS Integers, Sequences, FiniteSets, TLC

VARIABLES chain, transactions, nodes, held, last, promised, pc, loc

vars == <<chain, transactions, nodes, held, last, promised, pc, loc>>

(***************************************************************************)
(* Bounds of the model.                                                    *)
(***************************************************************************)
\* blocks the local node mines onto a chain before the model stops mining
MaxChain == 3
\* pending transactions accepted through /add_transaction before a mine
MaxPending == 1
\* candidates proof_of_work tries before the model gives the search up
MaxProof == 13
\* blocks in a chain a peer answers with
MaxPeerLen == 3
\* largest timestamp the clock supplies
MaxTime == 0
\* peers registered through /connect_node
MaxNodes == 2
\* requests one thread serves when requests are served concurrently
MaxServed == 1
\* pending transactions add_transaction, called directly, accepts before a
\* create_block
MaxQueue == 2

(***************************************************************************)
(* Values.                                                                 *)
(***************************************************************************)
\* Python's None where a list is expected; `if longest_chain:` treats None
\* and the empty list alike
None == <<>>

\* previous_hash = '0' of the genesis block; digests are tuples, so the
\* one-character string is the tuple of its character
ZeroHash == <<"0">>

\* node_address = str(uuid4()).replace('-', '')
node_address == "node"

Times == 0..MaxTime

(***************************************************************************)
(* str(n).encode(): the ASCII bytes of the decimal text of an integer, a   *)
(* leading '-' (45) for a negative one, digits '0'..'9' as 48..57.         *)
(***************************************************************************)
RECURSIVE Digits(_)
Digits(n) == IF n < 10 THEN <<48 + n>> ELSE Append(Digits(n \div 10), 48 + (n % 10))

Str(n) == IF n < 0 THEN <<45>> \o Digits(0 - n) ELSE Digits(n)

(***************************************************************************)
(* hashlib.sha256(bytes).hexdigest() for the proof-of-work texts: a        *)
(* multiplicative fold of the bytes into a 6-symbol digest over {0, 1}.    *)
(***************************************************************************)
RECURSIVE Mix(_, _)
Mix(bytes, h) ==
    IF bytes = <<>> THEN h ELSE Mix(Tail(bytes), (h * 5 + Head(bytes)) % 64)

sha256_hexdigest(bytes) ==
    LET h == Mix(bytes, 1)
    IN  <<(h \div 32) % 2, (h \div 16) % 2, (h \div 8) % 2,
          (h \div 4) % 2, (h \div 2) % 2, h % 2>>

\* hash_operation = sha256(str(proof**2 - previous_proof**2).encode()).hexdigest()
hash_operation(proof, previous_proof) ==
    sha256_hexdigest(Str(proof * proof - previous_proof * previous_proof))

\* hash_operation[:4] == '0000'
check_proof(proof, previous_proof) ==
    SubSeq(hash_operation(proof, previous_proof), 1, 4) = <<0, 0, 0, 0>>

(***************************************************************************)
(* Blockchain.proof_of_work: candidates 1, 2, 3, ... until one passes.     *)
(* The loop has no bound; the model follows it for MaxProof candidates     *)
(* and answers NoProof when none of them passed (the call is then still    *)
(* running, and the request that made it is not enabled).                  *)
(***************************************************************************)
NoProof == 0

RECURSIVE proof_search(_, _)
proof_search(new_proof, previous_proof) ==
    IF check_proof(new_proof, previous_proof) THEN new_proof
    ELSE IF new_proof >= MaxProof THEN NoProof
    ELSE proof_search(new_proof + 1, previous_proof)

\* the largest candidate up to MaxProof that passes, in place of the first
proof_of_work_largest(previous_proof) ==
    LET passing == {p \in 1..MaxProof : check_proof(p, previous_proof)}
    IN  IF passing = {} THEN NoProof
        ELSE CHOOSE p \in passing : \A q \in passing : q <= p

proof_of_work(previous_proof) == proof_search(1, previous_proof)

(***************************************************************************)
(* Blockchain.hash: json.dumps(block, sort_keys = True) hashed with        *)
(* SHA-256.  The text lists the keys in sorted order, index,               *)
(* previous_hash, proof, timestamp, transactions, and each transaction as  *)
(* amount, receiver, sender; the digest stands for that text.              *)
(***************************************************************************)
json_dumps_tx(tx) == <<tx.amount, tx.receiver, tx.sender>>

json_dumps(block) ==
    <<block.index, block.previous_hash, block.proof, block.timestamp,
      [i \in 1..Len(block.transactions) |-> json_dumps_tx(block.transactions[i])]>>

hash(block) == json_dumps(block)

(***************************************************************************)
(* Blocks and transactions.                                                *)
(***************************************************************************)
Transaction(sender, receiver, amount) ==
    [sender |-> sender, receiver |-> receiver, amount |-> amount]

Block(index, timestamp, proof, previous_hash, txs) ==
    [index |-> index, timestamp |-> timestamp, proof |-> proof,
     previous_hash |-> previous_hash, transactions |-> txs]

\* create_block with 'transactions' left out of the block
create_block_without_pending(c, txs, proof, previous_hash, now) ==
    Block(Len(c) + 1, now, proof, previous_hash, <<>>)

\* create_block numbering from len(self.chain)
create_block_from_zero(c, txs, proof, previous_hash, now) ==
    Block(Len(c), now, proof, previous_hash, txs)

\* Blockchain.create_block, lines 53-57: the block it builds from the chain
\* and the pending list
create_block(c, txs, proof, previous_hash, now) ==
    Block(Len(c) + 1, now, proof, previous_hash, txs)

\* the block __init__ creates: create_block(proof = 1, previous_hash = '0')
\* on an empty chain with no transactions
Genesis(now) == create_block(<<>>, <<>>, 1, ZeroHash, now)

\* Blockchain.get_previous_block: chain[-1]
get_previous_block(c) == c[Len(c)]

(***************************************************************************)
(* Blockchain.is_chain_valid.  chain[0] of an empty list raises            *)
(* IndexError; otherwise the loop walks block_index = 1 .. len(chain) - 1  *)
(* (0-based) and returns False at the first block whose previous_hash is   *)
(* not the hash of the block before it or whose proof fails the check.     *)
(***************************************************************************)
RECURSIVE valid_from(_, _, _)
valid_from(c, previous_block, block_index) ==
    IF ~(block_index < Len(c)) THEN TRUE
    ELSE LET block == c[block_index + 1]
         IN  IF block.previous_hash # hash(previous_block) THEN FALSE
             ELSE IF ~check_proof(block.proof, previous_block.proof) THEN FALSE
             ELSE valid_from(c, block, block_index + 1)

is_chain_valid_raises(c) == Len(c) = 0

is_chain_valid(c) == valid_from(c, c[1], 1)

(***************************************************************************)
(* Blockchain.add_node: urlparse(address).netloc.  An address is the text  *)
(* scheme + ":" (when there is a scheme) + "//" (when slashes) + host +    *)
(* path.  urlparse finds a network location only behind "//"; without it   *)
(* the whole text is a path and netloc is the empty string.                *)
(***************************************************************************)
Address(scheme, slashes, host, path) ==
    [scheme |-> scheme, slashes |-> slashes, host |-> host, path |-> path]

urlparse_netloc(address) == IF address.slashes THEN address.host ELSE ""

add_node(ns, address) == ns \cup {urlparse_netloc(address)}

\* the addresses a client posts to /connect_node
Addresses ==
    { Address("http", TRUE, "10.0.0.5:5000", "/get_chain"),
      Address("", FALSE, "10.0.0.5:5000", ""),
      Address("http", TRUE, "10.0.0.6:5000", "") }

(***************************************************************************)
(* What requests.get(f'http://{node}/get_chain') can give: an exception    *)
(* (the peer is unreachable; for the empty netloc the URL has no host and  *)
(* requests raises InvalidURL), a response that is not 200, or a 200       *)
(* whose JSON carries 'length' and 'chain'.  A peer is not bound to        *)
(* answer truthfully: 'length' may differ from the number of blocks, and   *)
(* the blocks may be linked or proved wrongly.                             *)
(***************************************************************************)
Response(raises, status_code, length, c) ==
    [raises |-> raises, status_code |-> status_code, length |-> length, chain |-> c]

\* a first block of a peer that is not the genesis block of this program
ForeignFirst == Block(2, 0, 2, ZeroHash, <<Transaction("peer", "Brandon", 1)>>)

\* the chain of n blocks a peer running this program mines on top of a
\* first block (<<first>> when the proof search gives up)
RECURSIVE Honest(_, _)
Honest(first, n) ==
    IF n <= 1 THEN <<first>>
    ELSE LET c == Honest(first, n - 1)
             previous_block == get_previous_block(c)
             proof == proof_of_work(previous_block.proof)
         IN  IF Len(c) < n - 1 \/ proof = NoProof THEN c
             ELSE Append(c, Block(Len(c) + 1, 1, proof, hash(previous_block),
                                  <<Transaction("peer", "Brandon", 1)>>))

\* chain c with the link of its second block cut
Unlinked(c) == [c EXCEPT ![2].previous_hash = ZeroHash]

\* chain c with the proof of its last block replaced by the next candidate
Unproved(c) == [c EXCEPT ![Len(c)].proof = @ + 1]

\* the chains a peer answers with: honest ones from the genesis block or
\* from a foreign first block, and the longest honest one with a block altered
PeerChains ==
    {Honest(Genesis(0), n) : n \in 1..MaxPeerLen}
    \cup {Honest(ForeignFirst, MaxPeerLen - 1)}
    \cup {Unlinked(Honest(Genesis(0), MaxPeerLen)), Unproved(Honest(Genesis(0), MaxPeerLen))}

\* a 'length' no chain of the model has
LieLength == MaxChain + MaxPeerLen + 1

\* the chains a peer sends under a 'length' that is not theirs
LieChains == {<<>>, Honest(Genesis(0), 1)}

Responses(node) ==
    IF node = "" THEN {Response("InvalidURL", 0, 0, <<>>)}
    ELSE {Response("ConnectionError", 0, 0, <<>>), Response("", 404, 0, <<>>)}
         \cup {Response("", 200, Len(c), c) : c \in PeerChains}
         \cup {Response("", 200, LieLength, c) : c \in LieChains}

(***************************************************************************)
(* Blockchain.replace_chain, lines 162-181: the loop over the nodes in     *)
(* the order the set yields them, then the assignment.  scan answers       *)
(* what the loop leaves: the exception that ended it (if any) and          *)
(* longest_chain.                                                          *)
(***************************************************************************)
\* scan without the call of is_chain_valid: any longer chain is taken
RECURSIVE scan_unvalidated(_, _, _, _, _)
scan_unvalidated(order, resp, i, max_length, longest_chain) ==
    IF i > Len(order) THEN [raised |-> "", longest_chain |-> longest_chain]
    ELSE LET response == resp[order[i]]
         IN  IF response.raises # ""
             THEN [raised |-> response.raises, longest_chain |-> longest_chain]
             ELSE IF response.status_code = 200 /\ response.length > max_length
             THEN scan_unvalidated(order, resp, i + 1, response.length, response.chain)
             ELSE scan_unvalidated(order, resp, i + 1, max_length, longest_chain)

RECURSIVE scan(_, _, _, _, _)
scan(order, resp, i, max_length, longest_chain) ==
    IF i > Len(order) THEN [raised |-> "", longest_chain |-> longest_chain]
    ELSE LET response == resp[order[i]]
         IN  IF response.raises # ""
             THEN [raised |-> response.raises, longest_chain |-> longest_chain]
             ELSE IF response.status_code = 200
             THEN IF response.length > max_length
                  THEN IF is_chain_valid_raises(response.chain)
                       THEN [raised |-> "IndexError", longest_chain |-> longest_chain]
                       ELSE IF is_chain_valid(response.chain)
                       THEN scan(order, resp, i + 1, response.length, response.chain)
                       ELSE scan(order, resp, i + 1, max_length, longest_chain)
                  ELSE scan(order, resp, i + 1, max_length, longest_chain)
             ELSE scan(order, resp, i + 1, max_length, longest_chain)

\* `if longest_chain:`
Truthy(c) == Len(c) > 0

\* the orders in which `for node in network` can yield the set
RECURSIVE Orders(_)
Orders(ns) ==
    IF ns = {} THEN {<<>>}
    ELSE UNION {{<<n>> \o o : o \in Orders(ns \ {n})} : n \in ns}

(***************************************************************************)
(* State.                                                                  *)
(*   chain, transactions, nodes : the attributes of the Blockchain object  *)
(*   held     : the positions of the chain whose block holds the list      *)
(*              object self.transactions is bound to                       *)
(*   last     : the request served last: its route, HTTP status, what the  *)
(*              method under it returned, the attributes as they were      *)
(*              before it, and what the peers answered (field: the block   *)
(*              field a tampering step changed; arg, ret: the argument     *)
(*              and the return value of a method called directly)          *)
(*   promised : for each pending transaction, the block index that         *)
(*              add_transaction returned for it                            *)
(*   pc, loc  : for requests served by concurrent threads, each thread's   *)
(*              position and local variables (served: the requests the     *)
(*              thread has completed)                                      *)
(***************************************************************************)
Threads == {"m1", "m2", "r"}

NoLocals ==
    [previous_block |-> Genesis(0), proof |-> 0, previous_hash |-> ZeroHash,
     block |-> Genesis(0), aliased |-> FALSE,
     max_length |-> 0, longest_chain |-> None, served |-> 0]

Served(op, status, result, index, resp) ==
    [op |-> op, status |-> status, result |-> result, index |-> index,
     chain0 |-> chain, transactions0 |-> transactions, nodes0 |-> nodes,
     promised0 |-> promised, resp |-> resp, field |-> "",
     arg |-> <<>>, ret |-> <<>>]

\* no request served yet
NoRequest ==
    [op |-> "init", status |-> 0, result |-> "", index |-> 0,
     chain0 |-> <<>>, transactions0 |-> <<>>, nodes0 |-> {},
     promised0 |-> <<>>, resp |-> <<>>, field |-> "",
     arg |-> <<>>, ret |-> <<>>]

\* blockchain = Blockchain(): __init__ makes the genesis block
Init ==
    /\ chain = <<Genesis(0)>>
    /\ transactions = <<>>
    /\ nodes = {}
    /\ held = {}
    /\ promised = <<>>
    /\ last = NoRequest
    /\ pc = [t \in Threads |-> "idle"]
    /\ loc = [t \in Threads |-> NoLocals]

(***************************************************************************)
(* Blockchain.add_transaction and the list objects of create_block.        *)
(* A block's 'transactions' is the list object self.transactions (line     *)
(* 57), not a copy: held is the set of chain positions whose block holds   *)
(* the object self.transactions is bound to now.  An append to that        *)
(* object (line 142) shows in every such block; line 58 binds              *)
(* self.transactions to a new list that no block holds.                    *)
(***************************************************************************)
\* add_transaction putting the transaction in twice
add_transaction_twice(txs, tx) == Append(Append(txs, tx), tx)

\* add_transaction putting the transaction in front
add_transaction_front(txs, tx) == <<tx>> \o txs

\* line 142, self.transactions.append({...}): the pending list afterwards
add_transaction(txs, tx) == Append(txs, tx)

\* line 142 as the blocks of the chain see it
appended_in_blocks(c, h, tx) ==
    [i \in 1..Len(c) |->
        IF i \in h THEN [c[i] EXCEPT !.transactions = add_transaction(@, tx)] ELSE c[i]]

\* line 58 without a new list: the blocks keep holding the pending list
holders_kept(h) == h

\* line 58, self.transactions = []: the positions that hold the new list
holders_after_rebind(h) == {}

\* the index add_transaction returns: previous_block['index'] + 1
add_transaction_index(c) == get_previous_block(c).index + 1

(***************************************************************************)
(* POST /add_transaction.  400 when a key is missing, else the             *)
(* transaction goes to the end of the pending list and the answer names    *)
(* the block index add_transaction returned.                               *)
(***************************************************************************)
transaction_keys == {"sender", "receiver", "amount"}

TxRequests ==
    { [sender |-> "A", receiver |-> "B", amount |-> 10],
      [sender |-> "B", receiver |-> "A", amount |-> 5],
      [sender |-> "A", receiver |-> "B"] }

add_transaction_route ==
    \E json \in TxRequests :
        IF ~(transaction_keys \subseteq DOMAIN json)
        THEN /\ last' = Served("add_transaction", 400, "", 0, <<>>)
             /\ UNCHANGED <<held, chain, transactions, nodes, promised, pc, loc>>
        ELSE LET tx == Transaction(json.sender, json.receiver, json.amount)
             IN  /\ Len(transactions) < MaxPending
                 /\ transactions' = add_transaction(transactions, tx)
                 /\ chain' = appended_in_blocks(chain, held, tx)
                 /\ promised' = Append(promised, add_transaction_index(chain))
                 /\ last' = Served("add_transaction", 201, "", add_transaction_index(chain), <<>>)
                 /\ UNCHANGED <<held, nodes, pc, loc>>

(***************************************************************************)
(* GET /mine_block, served without another request in between: read the    *)
(* head, search the proof, hash the head, add the reward transaction,      *)
(* create the block.                                                       *)
(***************************************************************************)
mine_block ==
    \E now \in Times :
        LET previous_block == get_previous_block(chain)
            proof == proof_of_work(previous_block.proof)
            previous_hash == hash(previous_block)
            reward == Transaction(node_address, "Brandon", 1)
            pending == add_transaction(transactions, reward)
            c == appended_in_blocks(chain, held, reward)
            block == create_block(c, pending, proof, previous_hash, now)
        IN  /\ Len(chain) < MaxChain
            /\ proof # NoProof
            /\ chain' = Append(c, block)
            /\ transactions' = <<>>
            /\ held' = holders_after_rebind(held \cup {Len(c) + 1})
            /\ promised' = <<>>
            /\ last' = Served("mine_block", 200, "", block.index, <<>>)
            /\ UNCHANGED <<nodes, pc, loc>>

(***************************************************************************)
(* POST /connect_node.  400 when the JSON has no 'nodes', else every       *)
(* address of the list goes through add_node.                              *)
(***************************************************************************)
ConnectRequests ==
    {[nodes |-> <<a>>] : a \in Addresses} \cup {[nodes |-> <<>>], [peers |-> <<>>]}

RECURSIVE add_nodes(_, _)
add_nodes(ns, addresses) ==
    IF addresses = <<>> THEN ns
    ELSE add_nodes(add_node(ns, Head(addresses)), Tail(addresses))

connect_node ==
    \E json \in ConnectRequests :
        IF "nodes" \notin DOMAIN json
        THEN /\ last' = Served("connect_node", 400, "", 0, <<>>)
             /\ UNCHANGED <<held, chain, transactions, nodes, promised, pc, loc>>
        ELSE /\ Cardinality(add_nodes(nodes, json.nodes)) <= MaxNodes
             /\ nodes' = add_nodes(nodes, json.nodes)
             /\ last' = Served("connect_node", 201, "", 0, <<>>)
             /\ UNCHANGED <<held, chain, transactions, promised, pc, loc>>

(***************************************************************************)
(* GET /replace_chain, served without another request in between.          *)
(* Blockchain.replace_chain returns True after replacing the chain and     *)
(* falls off its end (None) otherwise; an exception inside it leaves the   *)
(* attributes as they were and the request answers 500.                    *)
(***************************************************************************)
replace_chain_outcome(c, order, resp) ==
    LET found == scan(order, resp, 1, Len(c), None)
    IN  IF found.raised # ""
        THEN [status |-> 500, result |-> found.raised, chain |-> c]
        ELSE IF Truthy(found.longest_chain)
        THEN [status |-> 200, result |-> "True", chain |-> found.longest_chain]
        ELSE [status |-> 200, result |-> "None", chain |-> c]

replace_chain ==
    \E resp \in [nodes -> UNION {Responses(n) : n \in nodes}], order \in Orders(nodes) :
        LET out == replace_chain_outcome(chain, order, resp)
        IN  /\ \A n \in nodes : resp[n] \in Responses(n)
            /\ chain' = out.chain
            /\ last' = Served("replace_chain", out.status, out.result, 0, resp)
            /\ UNCHANGED <<held, transactions, nodes, promised, pc, loc>>

(***************************************************************************)
(* GET /is_valid and GET /get_chain read the chain and change nothing.     *)
(***************************************************************************)
is_valid ==
    /\ last' = Served("is_valid", 200,
                      IF is_chain_valid(chain) THEN "True" ELSE "False", 0, <<>>)
    /\ UNCHANGED <<held, chain, transactions, nodes, promised, pc, loc>>

get_chain ==
    /\ last' = Served("get_chain", 200, "", Len(chain), <<>>)
    /\ UNCHANGED <<held, chain, transactions, nodes, promised, pc, loc>>

Next ==
    \/ add_transaction_route
    \/ mine_block
    \/ connect_node
    \/ replace_chain
    \/ is_valid
    \/ get_chain

Spec == Init /\ [][Next]_vars

(***************************************************************************)
(* is_chain_valid applied to a chain with one field of one block changed.  *)
(* The chains are those a node running this program builds; a step         *)
(* replaces one field of one block after the first by another value and    *)
(* records what is_chain_valid answers for the result.                     *)
(***************************************************************************)
BuiltChains ==
    {Honest(Genesis(0), n) : n \in 2..MaxPeerLen}
    \cup {Honest(ForeignFirst, n) : n \in 2..MaxPeerLen}

Fields == {"index", "timestamp", "proof", "previous_hash", "transactions"}

FieldValues(f) ==
    CASE f = "index" -> 0..(MaxPeerLen + 1)
      [] f = "timestamp" -> 0..(MaxTime + 2)
      [] f = "proof" -> (0 - MaxProof)..MaxProof
      [] f = "previous_hash" ->
            {ZeroHash} \cup UNION {{hash(c[i]) : i \in 1..Len(c)} : c \in BuiltChains}
      [] f = "transactions" ->
            {<<>>, <<Transaction("peer", "Brandon", 1)>>, <<Transaction("A", "B", 10)>>}

TamperInit ==
    /\ chain \in {c \in BuiltChains : Len(c) >= 2 /\ is_chain_valid(c)}
    /\ transactions = <<>>
    /\ nodes = {}
    /\ held = {}
    /\ promised = <<>>
    /\ last = NoRequest
    /\ pc = [t \in Threads |-> "idle"]
    /\ loc = [t \in Threads |-> NoLocals]

validate_tampered ==
    \E i \in 2..Len(chain), f \in Fields :
        \E v \in FieldValues(f) :
            LET tampered == [chain EXCEPT ![i] = [@ EXCEPT ![f] = v]]
            IN  /\ last.op = "init"
                /\ v # chain[i][f]
                /\ chain' = tampered
                /\ last' = [Served("tamper", 0,
                                   IF is_chain_valid(tampered) THEN "True" ELSE "False",
                                   i, <<>>)
                              EXCEPT !.field = f]
                /\ UNCHANGED <<held, transactions, nodes, promised, pc, loc>>

TamperNext == validate_tampered

SpecTamper == TamperInit /\ [][TamperNext]_vars

(***************************************************************************)
(* Requests served by concurrent threads.  The program takes no lock, so   *)
(* when the server hands requests to threads the statements of the         *)
(* handlers interleave.  Each step below is one access to the shared       *)
(* Blockchain object together with the local computation that follows it.  *)
(*                                                                         *)
(* GET /mine_block, thread t:                                              *)
(*   idle  -> add   : lines 209-212, read the head, search the proof,      *)
(*                    hash the head                                        *)
(*   add   -> build : line 213, append the reward to self.transactions     *)
(*   build -> clear : lines 53-57, the block dict: len(self.chain) + 1     *)
(*                    and a reference to the list self.transactions        *)
(*   clear -> push  : line 58, self.transactions = []                      *)
(*   push  -> idle  : line 59, self.chain.append(block)                    *)
(* A block under construction holds the list object self.transactions      *)
(* (aliased), so it sees what is appended to that list until some thread   *)
(* rebinds self.transactions to a new list.                                *)
(***************************************************************************)
Miners == {"m1", "m2"}

mine_read(t) ==
    LET previous_block == get_previous_block(chain)
        proof == proof_of_work(previous_block.proof)
    IN  /\ pc[t] = "idle"
        /\ loc[t].served < MaxServed
        /\ Len(chain) < MaxChain
        /\ proof # NoProof
        /\ loc' = [loc EXCEPT ![t].previous_block = previous_block,
                              ![t].proof = proof,
                              ![t].previous_hash = hash(previous_block)]
        /\ pc' = [pc EXCEPT ![t] = "add"]
        /\ UNCHANGED <<held, chain, transactions, nodes, last, promised>>

mine_add(t) ==
    /\ pc[t] = "add"
    /\ transactions' = add_transaction(transactions, Transaction(node_address, "Brandon", 1))
    /\ promised' = Append(promised, add_transaction_index(chain))
    /\ pc' = [pc EXCEPT ![t] = "build"]
    /\ UNCHANGED <<held, chain, nodes, last, loc>>

mine_build(t) ==
    \E now \in Times :
        /\ pc[t] = "build"
        /\ loc' = [loc EXCEPT
                     ![t].block = create_block(chain, <<>>, loc[t].proof,
                                               loc[t].previous_hash, now),
                     ![t].aliased = TRUE]
        /\ pc' = [pc EXCEPT ![t] = "clear"]
        /\ UNCHANGED <<held, chain, transactions, nodes, last, promised>>

\* self.transactions = []: every block that holds the old list keeps it
\* with the contents it has now
mine_clear(t) ==
    /\ pc[t] = "clear"
    /\ loc' = [u \in Threads |->
                 IF loc[u].aliased
                 THEN [loc[u] EXCEPT !.block.transactions = transactions,
                                     !.aliased = FALSE]
                 ELSE loc[u]]
    /\ transactions' = <<>>
    /\ promised' = <<>>
    /\ pc' = [pc EXCEPT ![t] = "push"]
    /\ UNCHANGED <<held, chain, nodes, last>>

mine_push(t) ==
    /\ pc[t] = "push"
    /\ chain' = Append(chain, loc[t].block)
    /\ pc' = [pc EXCEPT ![t] = "idle"]
    /\ loc' = [loc EXCEPT ![t] = [NoLocals EXCEPT !.served = loc[t].served + 1]]
    /\ UNCHANGED <<held, transactions, nodes, last, promised>>

mine_step(t) ==
    \/ mine_read(t)
    \/ mine_add(t)
    \/ mine_build(t)
    \/ mine_clear(t)
    \/ mine_push(t)

(***************************************************************************)
(* GET /replace_chain, thread "r":                                         *)
(*   idle   -> assign : lines 162-177, max_length = len(self.chain) and    *)
(*                      the loop over the peers (idle again when a fetch   *)
(*                      or is_chain_valid raises)                          *)
(*   assign -> idle   : lines 179-181, self.chain = longest_chain when     *)
(*                      there is one                                       *)
(***************************************************************************)
replace_scan ==
    \E resp \in [nodes -> UNION {Responses(n) : n \in nodes}], order \in Orders(nodes) :
        LET found == scan(order, resp, 1, Len(chain), None)
        IN  /\ pc["r"] = "idle"
            /\ loc["r"].served < MaxServed
            /\ \A n \in nodes : resp[n] \in Responses(n)
            /\ IF found.raised # ""
               THEN /\ loc' = [loc EXCEPT !["r"].served = @ + 1]
                    /\ UNCHANGED pc
               ELSE /\ pc' = [pc EXCEPT !["r"] = "assign"]
                    /\ loc' = [loc EXCEPT !["r"].max_length = Len(chain),
                                          !["r"].longest_chain = found.longest_chain]
            /\ UNCHANGED <<held, chain, transactions, nodes, last, promised>>

replace_assign ==
    /\ pc["r"] = "assign"
    /\ chain' = IF Truthy(loc["r"].longest_chain) THEN loc["r"].longest_chain ELSE chain
    /\ pc' = [pc EXCEPT !["r"] = "idle"]
    /\ loc' = [loc EXCEPT !["r"] = [NoLocals EXCEPT !.served = loc["r"].served + 1]]
    /\ UNCHANGED <<held, transactions, nodes, last, promised>>

\* one mine_block request and one replace_chain request at a time, served
\* by two threads, with peers registered in between
RaceNext ==
    \/ connect_node
    \/ mine_step("m1")
    \/ replace_scan
    \/ replace_assign

SpecRace == Init /\ [][RaceNext]_vars

\* two mine_block requests at a time, served by two threads, with
\* transactions submitted in between
MinersNext ==
    \/ add_transaction_route
    \/ \E t \in Miners : mine_step(t)

SpecMiners == Init /\ [][MinersNext]_vars

(***************************************************************************)
(* The methods of the Blockchain object called directly, one call at a     *)
(* time, as a test of the class calls them: create_block with any proof    *)
(* and previous_hash (it checks neither), add_transaction with any         *)
(* transaction (the key check belongs to the route), add_node.             *)
(***************************************************************************)
\* the (proof, previous_hash) pairs create_block is called with: those
\* mine_block computes, and those of the call in __init__
CreateArgs(c) ==
    LET previous_block == get_previous_block(c)
    IN  {<<proof_of_work(previous_block.proof), hash(previous_block)>>, <<1, ZeroHash>>}

call_create_block ==
    \E now \in Times, args \in CreateArgs(chain) :
        LET block == create_block(chain, transactions, args[1], args[2], now)
        IN  /\ Len(chain) < MaxChain
            /\ args[1] # NoProof
            /\ chain' = Append(chain, block)
            /\ transactions' = <<>>
            /\ held' = holders_after_rebind(held \cup {Len(chain) + 1})
            /\ promised' = <<>>
            /\ last' = [Served("create_block", 0, "", block.index, <<>>)
                          EXCEPT !.arg = args, !.ret = block]
            /\ UNCHANGED <<nodes, pc, loc>>

call_add_transaction ==
    \E json \in {j \in TxRequests : transaction_keys \subseteq DOMAIN j} :
        LET tx == Transaction(json.sender, json.receiver, json.amount)
        IN  /\ Len(transactions) < MaxQueue
            /\ transactions' = add_transaction(transactions, tx)
            /\ chain' = appended_in_blocks(chain, held, tx)
            /\ promised' = Append(promised, add_transaction_index(chain))
            /\ last' = [Served("add_transaction", 0, "", add_transaction_index(chain), <<>>)
                          EXCEPT !.arg = tx]
            /\ UNCHANGED <<held, nodes, pc, loc>>

call_add_node ==
    \E address \in Addresses :
        /\ Cardinality(add_node(nodes, address)) <= MaxNodes
        /\ nodes' = add_node(nodes, address)
        /\ last' = [Served("add_node", 0, "", 0, <<>>) EXCEPT !.arg = address]
        /\ UNCHANGED <<held, chain, transactions, promised, pc, loc>>

LedgerNext ==
    \/ call_create_block
    \/ call_add_transaction
    \/ call_add_node

SpecLedger == Init /\ [][LedgerNext]_vars

(***************************************************************************)
(* The methods that read their argument and change nothing, applied to     *)
(* arguments of any kind: proof_of_work to a previous proof, negative      *)
(* ones included (a peer's block carries any integer), is_chain_valid to   *)
(* a list of blocks, the empty list and altered chains included, hash to   *)
(* a block.                                                                *)
(***************************************************************************)
ProofInputs == (0 - MaxProof)..MaxProof

\* chain c with one field of one block after the first given another value
Tampered(c) ==
    UNION {{[c EXCEPT ![i] = [@ EXCEPT ![f] = v]] : v \in FieldValues(f)} :
              i \in 2..Len(c), f \in Fields}

ValidateInputs ==
    {<<>>} \cup PeerChains \cup BuiltChains \cup UNION {Tampered(c) : c \in BuiltChains}

\* the blocks the loop of is_chain_valid has read when it returns:
\* chain[0], then one block for every pass through the loop body
RECURSIVE blocks_read(_, _, _)
blocks_read(c, previous_block, block_index) ==
    IF ~(block_index < Len(c)) THEN block_index
    ELSE LET block == c[block_index + 1]
         IN  IF block.previous_hash # hash(previous_block) THEN block_index + 1
             ELSE IF ~check_proof(block.proof, previous_block.proof) THEN block_index + 1
             ELSE blocks_read(c, block, block_index + 1)

call_proof_of_work ==
    \E previous_proof \in ProofInputs :
        /\ proof_of_work(previous_proof) # NoProof
        /\ last' = [Served("proof_of_work", 0, "", proof_of_work(previous_proof), <<>>)
                      EXCEPT !.arg = previous_proof]
        /\ UNCHANGED <<held, chain, transactions, nodes, promised, pc, loc>>

call_is_chain_valid ==
    \E c \in ValidateInputs :
        /\ last' = [Served("is_chain_valid", 0,
                           IF is_chain_valid_raises(c) THEN "IndexError"
                           ELSE IF is_chain_valid(c) THEN "True" ELSE "False",
                           IF is_chain_valid_raises(c) THEN 0 ELSE blocks_read(c, c[1], 1),
                           <<>>)
                      EXCEPT !.arg = c]
        /\ UNCHANGED <<held, chain, transactions, nodes, promised, pc, loc>>

call_hash ==
    \E c \in BuiltChains :
      \E i \in 1..Len(c) :
        /\ last' = [Served("hash", 0, "", 0, <<>>) EXCEPT !.arg = c[i], !.ret = hash(c[i])]
        /\ UNCHANGED <<held, chain, transactions, nodes, promised, pc, loc>>

PureNext ==
    \/ call_proof_of_work
    \/ call_is_chain_valid
    \/ call_hash

SpecPure == Init /\ [][PureNext]_vars

(***************************************************************************)
(* Properties of the requests served one at a time (Spec).                 *)
(***************************************************************************)
\* what a peer answered, read as the claims read it
Answered(r) == r.raises = "" /\ r.status_code = 200

Truthful(r) == Answered(r) => r.length = Len(r.chain)

\* the answer carries a chain strictly longer than n blocks that passes
\* is_chain_valid
LongerValid(r, n) ==
    /\ Answered(r)
    /\ Len(r.chain) > n
    /\ is_chain_valid(r.chain)

Replaced == last.op = "replace_chain"

IsPrefix(c, d) == Len(c) <= Len(d) /\ SubSeq(d, 1, Len(c)) = c

\* C1: the local chain is never empty and its first block is the genesis
\* block (index 1, proof 1, previous_hash '0', no transactions), also after
\* replace_chain has adopted a chain a peer supplied.
C1_GenesisFirst ==
    /\ Len(chain) >= 1
    /\ chain[1].index = 1
    /\ chain[1].proof = 1
    /\ chain[1].previous_hash = ZeroHash
    /\ chain[1].transactions = <<>>

\* C2: whatever requests were served, one at a time, is_chain_valid of the
\* local chain is true: every block after the first is linked to the hash
\* of the block before it and its proof passes the check against the proof
\* before it.
C2_LocalChainValid ==
    /\ Len(chain) >= 1
    /\ is_chain_valid(chain)
    /\ \A i \in 2..Len(chain) :
          /\ chain[i].previous_hash = hash(chain[i - 1])
          /\ check_proof(chain[i].proof, chain[i - 1].proof)

\* a block was mined on top of a chain adopted from a peer
C2_Witness ==
    /\ last.op = "mine_block"
    /\ Len(chain) >= 3
    /\ chain[Len(chain) - 1].transactions = <<Transaction("peer", "Brandon", 1)>>
    /\ chain[Len(chain)].transactions[1].sender # "peer"

\* C4: when every peer that answered reported the true number of blocks,
\* replace_chain returns True exactly when some peer answered with a chain
\* strictly longer than the local one was and valid, and the local chain
\* is then one of the longest such chains.
C4_AdoptsLongestValid ==
    (Replaced /\ \A n \in DOMAIN last.resp : Truthful(last.resp[n])) =>
        LET n0 == Len(last.chain0)
            good == {n \in DOMAIN last.resp : LongerValid(last.resp[n], n0)}
        IN  /\ (last.result = "True") <=> (good # {})
            /\ (last.result = "True") =>
                  \E n \in good :
                      /\ chain = last.resp[n].chain
                      /\ \A m \in good : Len(last.resp[m].chain) <= Len(chain)

\* C5: replace_chain never leaves a shorter chain, and a chain it replaced
\* is strictly longer than the one before, whatever the peers answered,
\* 'length' fields that differ from the number of blocks included.
C5_NeverShorter ==
    Replaced =>
        /\ Len(chain) >= Len(last.chain0)
        /\ (last.result = "True" => Len(chain) > Len(last.chain0))

\* C6: when no peer supplies a strictly longer valid chain, replace_chain
\* leaves chain, pending transactions and nodes as they were and returns
\* the boolean False.
C6_NoCandidateNoChange ==
    (Replaced /\ \A n \in DOMAIN last.resp : ~LongerValid(last.resp[n], Len(last.chain0))) =>
        /\ chain = last.chain0
        /\ transactions = last.transactions0
        /\ nodes = last.nodes0
        /\ last.result = "False"

\* C7: a peer whose fetch raises or answers a status other than 200 is
\* skipped: no error of a fetch reaches the caller, and the result and the
\* local chain are those of a call without that peer registered.
C7_FailedPeerSkipped ==
    (Replaced /\ \E n \in DOMAIN last.resp : ~Answered(last.resp[n])) =>
        LET rest == {n \in DOMAIN last.resp : Answered(last.resp[n])}
            resp == [n \in rest |-> last.resp[n]]
        IN  /\ last.result \notin {"ConnectionError", "InvalidURL"}
            /\ \E order \in Orders(rest) :
                  LET out == replace_chain_outcome(last.chain0, order, resp)
                  IN  out.result = last.result /\ out.chain = chain

\* C8: the index add_transaction returned for a transaction is the index
\* of the block that later holds it, whatever was served between the two.
C8_PromisedIndex ==
    last.op = "mine_block" =>
        \A i \in 1..Len(last.promised0) : last.promised0[i] = chain[Len(chain)].index

\* C11: after any requests served one at a time, a replace_chain that
\* adopted a peer's chain included, the indices of the local chain are
\* contiguous: every block after the first has the index of the block
\* before it plus one.
C11_ContiguousIndices ==
    \A i \in 2..Len(chain) : chain[i].index = chain[i - 1].index + 1

\* the transactions this node accepts through add_transaction: those of
\* the clients and its own mining reward
LocalTransactions ==
    {Transaction(json.sender, json.receiver, json.amount) :
        json \in {j \in TxRequests : transaction_keys \subseteq DOMAIN j}}
    \cup {Transaction(node_address, "Brandon", 1)}

\* the places that hold transaction tx: positions of the pending list txs
\* and positions in the blocks of chain c
Places(tx, c, txs) ==
    {<<0, j>> : j \in {k \in 1..Len(txs) : txs[k] = tx}}
    \cup UNION {{<<i, j>> : j \in {k \in 1..Len(c[i].transactions) :
                                       c[i].transactions[k] = tx}} :
                   i \in 1..Len(c)}

\* C13: every transaction add_transaction accepted is held in exactly one
\* place, the pending list or one block of the chain, in every later
\* state: a request adds one place for the transaction it accepts and no
\* request removes or adds a place of any other, a replace_chain whose
\* peers reported their true lengths included.
C13_HeldInOnePlace ==
    \A tx \in LocalTransactions :
        LET before == Cardinality(Places(tx, last.chain0, last.transactions0))
            after == Cardinality(Places(tx, chain, transactions))
        IN  /\ last.op \in {"is_valid", "get_chain", "connect_node"} => after = before
            /\ (Replaced /\ \A n \in DOMAIN last.resp : Truthful(last.resp[n])) =>
                  after = before
            /\ last.op = "mine_block" =>
                  after = before + (IF tx.sender = node_address THEN 1 ELSE 0)
            /\ last.op = "add_transaction" => after \in {before, before + 1}

\* C17: the pending list changes in two ways only: a request that accepts
\* a transaction puts exactly that one at its end, and mine_block empties
\* it, the block it appends carrying what was pending; is_valid,
\* get_chain, connect_node, a rejected add_transaction and replace_chain,
\* whether it replaced the chain, kept it or died of an exception, leave
\* the pending list as it was.
C17_PendingFrame ==
    /\ last.op \in {"replace_chain", "is_valid", "get_chain", "connect_node"} =>
          transactions = last.transactions0
    /\ (last.op = "add_transaction" /\ last.status = 400) =>
          transactions = last.transactions0
    /\ (last.op = "add_transaction" /\ last.status = 201) =>
          /\ Len(transactions) = Len(last.transactions0) + 1
          /\ IsPrefix(last.transactions0, transactions)
          /\ transactions[Len(transactions)] \in LocalTransactions
    /\ last.op = "mine_block" =>
          /\ transactions = <<>>
          /\ IsPrefix(last.transactions0, chain[Len(chain)].transactions)

\* replace_chain replaced the chain while a transaction was pending
C17_Witness ==
    /\ Replaced
    /\ last.result = "True"
    /\ chain # last.chain0
    /\ last.transactions0 # <<>>

\* C20: a mine_block request appends exactly one block to the chain as it
\* was: its proof is proof_of_work of the proof of the head at the start
\* of the request, its previous_hash is the hash of that head, its
\* transactions are those pending at the start in their order followed by
\* exactly one reward transaction (sender node_address, amount 1) as the
\* last one, and the pending list is empty afterwards.
C20_MineBlock ==
    last.op = "mine_block" =>
        LET head == get_previous_block(last.chain0)
            block == chain[Len(chain)]
            n == Len(last.transactions0)
        IN  /\ Len(chain) = Len(last.chain0) + 1
            /\ IsPrefix(last.chain0, chain)
            /\ block.proof = proof_of_work(head.proof)
            /\ check_proof(block.proof, head.proof)
            /\ block.previous_hash = hash(head)
            /\ Len(block.transactions) = n + 1
            /\ SubSeq(block.transactions, 1, n) = last.transactions0
            /\ block.transactions[n + 1].sender = node_address
            /\ block.transactions[n + 1].amount = 1
            /\ \A i \in 1..n : block.transactions[i].sender # node_address
            /\ transactions = <<>>

\* a block was mined with a client's transaction pending, on a chain of
\* two or more blocks
C20_Witness ==
    /\ last.op = "mine_block"
    /\ last.transactions0 # <<>>
    /\ Len(last.chain0) >= 2
    /\ last.index = Len(chain)

(***************************************************************************)
(* Properties of the methods called directly (SpecLedger).                 *)
(***************************************************************************)
\* C12: add_transaction puts the transaction at the end of the pending
\* list, and create_block returns the new last block of the chain, whose
\* transactions are the pending list as it was at the call, in the order
\* the transactions were added, and leaves the pending list empty; after
\* the single add_transaction("A", "B", 10) the block's transactions are
\* that one transaction.
C12_AppendCapturesPending ==
    /\ last.op = "add_transaction" =>
          transactions = Append(last.transactions0, last.arg)
    /\ last.op = "create_block" =>
          /\ Len(chain) = Len(last.chain0) + 1
          /\ last.ret = chain[Len(chain)]
          /\ last.ret.transactions = last.transactions0
          /\ transactions = <<>>
          /\ last.transactions0 = <<Transaction("A", "B", 10)>> =>
                chain[Len(chain)].transactions =
                    <<[sender |-> "A", receiver |-> "B", amount |-> 10]>>

\* create_block was called with two different transactions pending
C12_Witness ==
    /\ last.op = "create_block"
    /\ Len(last.transactions0) = 2
    /\ last.transactions0[1] # last.transactions0[2]
    /\ chain[Len(chain)].transactions = last.transactions0

\* C14: add_node of the full URL http://10.0.0.5:5000/get_chain and
\* add_node of the bare 10.0.0.5:5000 each put the entry 10.0.0.5:5000 in
\* the registry, so the registry holds only host:port entries and, when
\* only that host was added, in any order and any number of times, exactly
\* the one entry.
C14_RegistryNormalised ==
    /\ last.op = "add_node" => last.arg.host \in nodes
    /\ \A n \in nodes : \E a \in Addresses : n = a.host
    /\ (nodes # {} /\ "10.0.0.6:5000" \notin nodes) => nodes = {"10.0.0.5:5000"}

\* C16: the Blockchain object as __init__ leaves it has a chain of exactly
\* one block with index 1, proof 1, previous_hash '0' and no transactions,
\* an empty pending list and an empty set of nodes.
C16_FreshLedger ==
    last.op = "init" =>
        /\ Len(chain) = 1
        /\ chain[1].index = 1
        /\ chain[1].proof = 1
        /\ chain[1].previous_hash = ZeroHash
        /\ chain[1].transactions = <<>>
        /\ transactions = <<>>
        /\ nodes = {}

\* the object right after construction, before any call
C16_Witness == last = NoRequest /\ Len(chain) = 1 /\ held = {}

\* C18: no add_transaction and no create_block changes a block that is
\* already in the chain: the chain before the call is a prefix of the
\* chain after it, so a transaction added after a create_block does not
\* show in the block that create_block appended.
C18_BlocksImmutable ==
    last.op \in {"create_block", "add_transaction"} => IsPrefix(last.chain0, chain)

\* a transaction was added after create_block appended a block that
\* carries transactions
C18_Witness ==
    /\ last.op = "add_transaction"
    /\ Len(chain) >= 2
    /\ chain[Len(chain)].transactions # <<>>
    /\ transactions # <<>>

(***************************************************************************)
(* Properties of the methods that only read (SpecPure).                    *)
(***************************************************************************)
\* C15: for every previous proof, proof_of_work returns the least integer
\* p >= 1 whose check against the previous proof passes (the digest of
\* str(p*p - previous_proof*previous_proof), sign included, starts with
\* '0000'): the returned proof passes the check is_chain_valid makes, and
\* no smaller candidate does.
C15_LeastProof ==
    last.op = "proof_of_work" =>
        LET previous_proof == last.arg
            p == last.index
        IN  /\ p >= 1
            /\ check_proof(p, previous_proof)
            /\ SubSeq(sha256_hexdigest(Str(p * p - previous_proof * previous_proof)), 1, 4)
                  = <<0, 0, 0, 0>>
            /\ \A q \in 1..(p - 1) : ~check_proof(q, previous_proof)

\* proof_of_work returned the smaller of two candidates that pass, after
\* candidates whose difference of squares is negative
C15_Witness ==
    /\ last.op = "proof_of_work"
    /\ last.index > 1
    /\ 1 - last.arg * last.arg < 0
    /\ \E q \in (last.index + 1)..MaxProof : check_proof(q, last.arg)

\* the blocks of c, after the first, that fail the link check or the proof
\* check against the block before them
FailingBlocks(c) ==
    {i \in 2..Len(c) :
        \/ c[i].previous_hash # hash(c[i - 1])
        \/ ~check_proof(c[i].proof, c[i - 1].proof)}

\* C19: is_chain_valid returns True exactly when every block after the
\* first passes the link check and the proof check against the block
\* before it (so for every list with no such block), returns False at the
\* first block that fails, having read no block after it, and leaves the
\* Blockchain object as it was.
C19_ValidateSemantics ==
    last.op = "is_chain_valid" =>
        LET c == last.arg
        IN  /\ last.result \in {"True", "False"}
            /\ (last.result = "True") <=> (FailingBlocks(c) = {})
            /\ last.result = "False" =>
                  /\ last.index \in FailingBlocks(c)
                  /\ \A i \in FailingBlocks(c) : last.index <= i
            /\ chain = last.chain0
            /\ transactions = last.transactions0
            /\ nodes = last.nodes0

(***************************************************************************)
(* Properties of is_chain_valid on altered chains (SpecTamper).            *)
(***************************************************************************)
\* C3: a valid chain of two or more blocks with any single field of any
\* one block after the first changed, the last block included, fails
\* is_chain_valid.
C3_TamperDetected == last.op = "tamper" => last.result = "False"

(***************************************************************************)
(* Properties of requests served by concurrent threads.                    *)
(***************************************************************************)
\* C9 (SpecRace): once a mine_block request and a replace_chain request
\* that ran concurrently have both completed, the local chain passes
\* is_chain_valid: a block appended after the swap is linked to the hash of
\* the block before it.
C9_ValidAfterRace ==
    (pc["m1"] = "idle" /\ pc["r"] = "idle") => is_chain_valid(chain)

\* C10 (SpecMiners): the index assignment, the drain of the pending list
\* and the push of one mine_block call are not interleaved with those of
\* another, so no two blocks of the chain have the same index.
C10_DistinctIndices ==
    \A i, j \in 1..Len(chain) : i # j => chain[i].index # chain[j].index

====
